---- MODULE Spec2Model ----
(***************************************************************************)
(* A model of note-cli (src/main.py): the note scan, the folder            *)
(* synthesizer, the tree builder, the selection controller of the          *)
(* interactive tree view, the file operations and the main loop.           *)
(*                                                                         *)
(* Representation.  A Python str is a sequence of one-character strings    *)
(* (<<"a", "/", "B">> is 'a/B'), so that lower(), strip(), split('/'),     *)
(* endswith() and the substring test are computed, not assumed.  An        *)
(* absolute path is the sequence of its components, each a str; the disk   *)
(* is the set of its directories and the set of its files.  The disk has   *)
(* no symbolic links and no '~', so Path.resolve() and expanduser() keep   *)
(* an absolute path as it is, and every directory is readable/writable.    *)
(* None is the empty sequence (it is falsy, as None is).                   *)
(***************************************************************************)
EXTENDS Integers, Sequences, FiniteSets, TLC

VARIABLES
    dirs,         \* the directories on disk (absolute paths)
    files,        \* the regular files on disk (absolute paths)
    config,       \* self.config["folders"]: the configured roots, in order
    all_notes,    \* self.all_notes: the result of the last find_notes
    state,        \* self.state: the session state dictionary
    search_text,  \* the text of the search buffer of the current Application
    pc,           \* "tui": app.run() is reading keys; "post": run() handles
                  \* the pending action; "done": run() has returned
    nops,         \* the number of times app.run() has exited so far
    last          \* the last operation, its input and its result

vars == <<dirs, files, config, all_notes, state, search_text, pc, nops, last>>

-----------------------------------------------------------------------------
(* Python str operations *)

None == <<>>

UpperLetters == <<"A","B","C","D","E","F","G","H","I","J","K","L","M",
                  "N","O","P","Q","R","S","T","U","V","W","X","Y","Z">>
LowerLetters == <<"a","b","c","d","e","f","g","h","i","j","k","l","m",
                  "n","o","p","q","r","s","t","u","v","w","x","y","z">>

Letter == DOMAIN UpperLetters
OtherChars == {"NUL", "\t", " ", "!", ".", "/", "\\", ":", "1", "2", "3"}
Chars == {UpperLetters[i] : i \in Letter} \cup {LowerLetters[i] : i \in Letter} \cup OtherChars

\* ord(c) ("NUL" stands for '\x00')
OrdTable ==
    [c \in Chars |->
        IF \E i \in Letter : UpperLetters[i] = c
        THEN 64 + (CHOOSE i \in Letter : UpperLetters[i] = c)
        ELSE IF \E i \in Letter : LowerLetters[i] = c
        THEN 96 + (CHOOSE i \in Letter : LowerLetters[i] = c)
        ELSE CASE c = "NUL" -> 0
               [] c = "\t" -> 9
               [] c = " " -> 32
               [] c = "!" -> 33
               [] c = "." -> 46
               [] c = "/" -> 47
               [] c = "1" -> 49
               [] c = "2" -> 50
               [] c = "3" -> 51
               [] c = ":" -> 58
               [] c = "\\" -> 92]
Ord(c) == OrdTable[c]

\* str.lower()
LowerTable ==
    [c \in Chars |->
        IF \E i \in Letter : UpperLetters[i] = c
        THEN LowerLetters[CHOOSE i \in Letter : UpperLetters[i] = c]
        ELSE c]
Lower(s) == [i \in 1..Len(s) |-> LowerTable[s[i]]]

\* q in s
Contains(q, s) == \E i \in 0..(Len(s) - Len(q)) : SubSeq(s, i + 1, i + Len(q)) = q

\* s.endswith(e), s.startswith(p)
EndsWith(s, e) == Len(s) >= Len(e) /\ SubSeq(s, Len(s) - Len(e) + 1, Len(s)) = e
StartsWith(s, p) == Len(s) >= Len(p) /\ SubSeq(s, 1, Len(p)) = p

\* s < t, the order sorted() puts strings in
StrLess(s, t) ==
    \E k \in 0..Len(s) :
        /\ k <= Len(t)
        /\ SubSeq(s, 1, k) = SubSeq(t, 1, k)
        /\ \/ k = Len(s) /\ k < Len(t)
           \/ k < Len(s) /\ k < Len(t) /\ Ord(s[k + 1]) < Ord(t[k + 1])

\* s.count(c)
RECURSIVE Count(_, _)
Count(s, c) ==
    IF s = <<>> THEN 0 ELSE (IF Head(s) = c THEN 1 ELSE 0) + Count(Tail(s), c)

\* s.split('/'): the parts between the separators, empty parts included
RECURSIVE Split(_)
Split(s) ==
    IF ~Contains(<<"/">>, s) THEN <<s>>
    ELSE LET i == CHOOSE j \in 1..Len(s) : s[j] = "/" /\ \A k \in 1..(j - 1) : s[k] # "/"
         IN  <<SubSeq(s, 1, i - 1)>> \o Split(SubSeq(s, i + 1, Len(s)))

\* '/'.join(parts)
RECURSIVE Join(_)
Join(parts) ==
    IF parts = <<>> THEN <<>>
    ELSE IF Len(parts) = 1 THEN parts[1]
    ELSE parts[1] \o <<"/">> \o Join(Tail(parts))

\* s.strip()
IsSpace(c) == c \in {" ", "\t"}
RECURSIVE Strip(_)
Strip(s) ==
    IF s = <<>> THEN s
    ELSE IF IsSpace(s[1]) THEN Strip(Tail(s))
    ELSE IF IsSpace(s[Len(s)]) THEN Strip(SubSeq(s, 1, Len(s) - 1))
    ELSE s

\* The elements of a set of strings in ascending order: sorted(S).
RECURSIVE SortedStrings(_)
SortedStrings(S) ==
    IF S = {} THEN <<>>
    ELSE LET m == CHOOSE x \in S : \A y \in S \ {x} : StrLess(x, y)
         IN  <<m>> \o SortedStrings(S \ {m})

\* The elements of a sequence.
Range(seq) == {seq[i] : i \in DOMAIN seq}

-----------------------------------------------------------------------------
(* pathlib *)

\* Path.parent, Path.name
Parent(p) == SubSeq(p, 1, Len(p) - 1)
Name(p) == p[Len(p)]

\* base is p or an ancestor of p: p.relative_to(base) raises no ValueError
IsPrefix(base, p) == Len(base) <= Len(p) /\ SubSeq(p, 1, Len(base)) = base

\* str(p.relative_to(base)): '.' for the base itself
RelStr(p, base) ==
    IF Len(p) = Len(base) THEN <<".">> ELSE Join(SubSeq(p, Len(base) + 1, Len(p)))

\* str(p) of an absolute path
AbsStr(p) == <<"/">> \o Join(p)

\* Path.suffix: from the last dot of the name, unless that dot is the
\* name's first or last character
Suffix(name) ==
    IF ~Contains(<<".">>, name) THEN <<>>
    ELSE LET i == CHOOSE j \in 1..Len(name) :
                      name[j] = "." /\ \A k \in (j + 1)..Len(name) : name[k] # "."
         IN  IF 1 < i /\ i < Len(name) THEN SubSeq(name, i, Len(name)) ELSE <<>>

\* (base / user_path).resolve(): '.' parts dropped, '..' parts climbing
RECURSIVE Resolve(_, _)
Resolve(p, parts) ==
    IF parts = <<>> THEN p
    ELSE IF Head(parts) \in {<<".">>, <<>>} THEN Resolve(p, Tail(parts))
    ELSE IF Head(parts) = <<".", ".">>
         THEN Resolve(IF p = <<>> THEN p ELSE Parent(p), Tail(parts))
    ELSE Resolve(Append(p, Head(parts)), Tail(parts))

\* base / rel for a relative path string
JoinPath(base, rel) == Resolve(base, Split(rel))

-----------------------------------------------------------------------------
(* Configuration constants *)

NOTE_EXTENSIONS == << <<".", "t", "x", "t">>, <<".", "m", "d">> >>

\* note_file.suffix.lower() in NOTE_EXTENSIONS
is_note_name(name) == Lower(Suffix(name)) \in Range(NOTE_EXTENSIONS)

dangerous_extensions ==
    << <<".","e","x","e">>, <<".","s","h">>, <<".","b","a","t">>, <<".","c","m","d">>,
       <<".","p","y">>, <<".","j","s">>, <<".","p","h","p">>, <<".","r","b">>,
       <<".","p","l">>, <<".","p","s","1">>, <<".","v","b","s">>, <<".","j","a","r">>,
       <<".","a","p","p">> >>

sensitive_dirs ==
    << <<"/","e","t","c">>, <<"/","v","a","r">>, <<"/","u","s","r">>, <<"/","b","i","n">>,
       <<"/","s","b","i","n">>, <<"/","r","o","o","t">>, <<"/","b","o","o","t">>,
       <<"/","d","e","v">>, <<"/","p","r","o","c">>, <<"/","s","y","s">>,
       <<"/","t","m","p">>,
       <<"C",":","\\","W","i","n","d","o","w","s">>,
       <<"C",":","\\","S","y","s","t","e","m","3","2">>,
       <<"C",":","\\","P","r","o","g","r","a","m"," ","F","i","l","e","s">> >>

-----------------------------------------------------------------------------
(* PathSafety *)

\* is_safe_path(base_path, user_path)
is_safe_path(base_path, user_path) == IsPrefix(base_path, JoinPath(base_path, user_path))

\* validate_filename without filename.lower() in the extension test.
validate_filename_case_sensitive(filename) ==
    /\ ~\E i \in DOMAIN dangerous_extensions : EndsWith(filename, dangerous_extensions[i])
    /\ ~Contains(<<".", ".">>, filename)
    /\ ~Contains(<<"/">>, filename)
    /\ ~Contains(<<"\\">>, filename)
    /\ ~Contains(<<"NUL">>, filename)

\* validate_filename(filename)
validate_filename(filename) ==
    /\ ~\E i \in DOMAIN dangerous_extensions :
            EndsWith(Lower(filename), dangerous_extensions[i])
    /\ ~Contains(<<".", ".">>, filename)
    /\ ~Contains(<<"/">>, filename)
    /\ ~Contains(<<"\\">>, filename)
    /\ ~Contains(<<"NUL">>, filename)

\* validate_folder_access(folder_path), on the disk whose directories are D
validate_folder_access(folder_path, D) ==
    /\ ~\E i \in DOMAIN sensitive_dirs : StartsWith(AbsStr(folder_path), sensitive_dirs[i])
    /\ folder_path \in D

-----------------------------------------------------------------------------
(* NoteIndex: find_notes *)

\* The order in which rglob("*") meets the files of a set: the scan order of
\* the directory entries is taken to be the order of the path strings.
RECURSIVE InScanOrder(_)
InScanOrder(S) ==
    IF S = {} THEN <<>>
    ELSE LET m == CHOOSE x \in S : \A y \in S \ {x} : StrLess(AbsStr(x), AbsStr(y))
         IN  <<m>> \o InScanOrder(S \ {m})

\* The note files rglob("*") yields under one configured folder.
notes_under(path, F) ==
    InScanOrder({f \in F : IsPrefix(path, Parent(f)) /\ is_note_name(Name(f))})

\* sorted(notes, key=lambda x: x.name): a stable sort on the file name
RECURSIVE sorted_by_name(_)
sorted_by_name(notes) ==
    IF notes = <<>> THEN <<>>
    ELSE LET rest == sorted_by_name(SubSeq(notes, 1, Len(notes) - 1))
             x == notes[Len(notes)]
             k == Cardinality({i \in DOMAIN rest : ~StrLess(Name(x), Name(rest[i]))})
         IN  SubSeq(rest, 1, k) \o <<x>> \o SubSeq(rest, k + 1, Len(rest))

RECURSIVE scan_folders(_, _, _)
scan_folders(folders, D, F) ==
    IF folders = <<>> THEN <<>>
    ELSE (IF validate_folder_access(Head(folders), D)
          THEN notes_under(Head(folders), F) ELSE <<>>)
         \o scan_folders(Tail(folders), D, F)

\* find_notes(folders)
find_notes(folders, D, F) == sorted_by_name(scan_folders(folders, D, F))

-----------------------------------------------------------------------------
(* FolderSynthesizer: NoteCLI._get_folders *)

\* A relative folder without the loop over path_parts.
without_parent_folders(relative_path) == {relative_path}

\* A relative folder with the parent folders the loop over path_parts adds.
with_parent_folders(relative_path) ==
    LET path_parts == Split(relative_path)
    IN  {relative_path} \cup {Join(SubSeq(path_parts, 1, i)) : i \in 1..(Len(path_parts) - 1)}

\* The folders one note adds: relative to the first configured folder that
\* is an ancestor of the note (a Path is always truthy, so the '.' of a
\* note directly in a configured folder is added too).
folders_of_note(note, cfg) ==
    IF \E i \in DOMAIN cfg : IsPrefix(cfg[i], Parent(note))
    THEN LET i == CHOOSE j \in DOMAIN cfg :
                      /\ IsPrefix(cfg[j], Parent(note))
                      /\ \A k \in 1..(j - 1) : ~IsPrefix(cfg[k], Parent(note))
         IN  with_parent_folders(RelStr(Parent(note), cfg[i]))
    ELSE {}

\* The folders os.walk adds for one configured folder: every directory
\* below it with no note among its files.
empty_folders(folder_path, D, F) ==
    IF folder_path \notin D THEN {}
    ELSE UNION { with_parent_folders(RelStr(d, folder_path)) :
                   d \in {x \in D : /\ IsPrefix(folder_path, x)
                                     /\ x # folder_path
                                     /\ ~\E f \in F : Parent(f) = x /\ is_note_name(Name(f))} }

\* NoteCLI._get_folders()
get_folders(notes, cfg, D, F) ==
    SortedStrings(UNION {folders_of_note(notes[i], cfg) : i \in DOMAIN notes}
                  \cup UNION {empty_folders(cfg[i], D, F) : i \in DOMAIN cfg})

-----------------------------------------------------------------------------
(* TreeBuilder: NoteCLI._build_tree_items *)

\* NoteCLI._get_notes_in_folder(folder)
get_notes_in_folder(folder, notes, cfg) ==
    LET InFolder(note) ==
            \E i \in DOMAIN cfg : /\ IsPrefix(cfg[i], Parent(note))
                                  /\ RelStr(Parent(note), cfg[i]) = folder
    IN  SelectSeq(notes, InFolder)

\* The folder test of line 647 without folder.lower().
folder_matches_case_sensitive(query, folder) == query = <<>> \/ Contains(query, folder)

\* line 647: the folder passes the search query
folder_matches(query, folder) == query = <<>> \/ Contains(query, Lower(folder))

\* line 668: the note passes the search query
note_matches(query, note) == query = <<>> \/ Contains(query, Lower(Name(note)))

\* The visibility test looking at the immediate parent folder only.
should_show_parent_only(folder, folders, query, expanded) ==
    \/ query # <<>>
    \/ LET folder_parts == Split(folder)
       IN  \A i \in {Len(folder_parts) - 1} \ {0} :
               LET parent_folder == Join(SubSeq(folder_parts, 1, i))
               IN  ~(parent_folder \in Range(folders) /\ parent_folder \notin expanded)

\* lines 651-658: no parent folder of the list is collapsed
should_show(folder, folders, query, expanded) ==
    \/ query # <<>>
    \/ LET folder_parts == Split(folder)
       IN  \A i \in 1..(Len(folder_parts) - 1) :
               LET parent_folder == Join(SubSeq(folder_parts, 1, i))
               IN  ~(parent_folder \in Range(folders) /\ parent_folder \notin expanded)

\* The indent counted from the number of parts instead of the slashes.
indent_of_parts(folder) == Len(Split(folder)) * 2

\* line 661
indent_of(folder) == Count(folder, "/") * 2

\* lines 665-669: the note rows below a folder row
RECURSIVE note_items(_, _, _)
note_items(folder_notes, query, indent_level) ==
    IF folder_notes = <<>> THEN <<>>
    ELSE (IF note_matches(query, Head(folder_notes))
          THEN << [type |-> "note", item |-> Head(folder_notes), indent |-> indent_level + 2] >>
          ELSE <<>>)
         \o note_items(Tail(folder_notes), query, indent_level)

\* The rows of one folder with its notes emitted for an expanded folder only.
folder_items_expanded_only(folder, folders, query, expanded, notes, cfg) ==
    IF ~folder_matches(query, folder) THEN <<>>
    ELSE IF ~should_show(folder, folders, query, expanded) THEN <<>>
    ELSE << [type |-> "folder", item |-> folder, indent |-> indent_of(folder)] >>
         \o (IF folder \in expanded
             THEN note_items(sorted_by_name(get_notes_in_folder(folder, notes, cfg)),
                             query, indent_of(folder))
             ELSE <<>>)

\* lines 645-669: the rows one folder of the sorted list contributes
folder_items(folder, folders, query, expanded, notes, cfg) ==
    IF ~folder_matches(query, folder) THEN <<>>
    ELSE IF ~should_show(folder, folders, query, expanded) THEN <<>>
    ELSE << [type |-> "folder", item |-> folder, indent |-> indent_of(folder)] >>
         \o (IF folder \in expanded \/ query # <<>>
             THEN note_items(sorted_by_name(get_notes_in_folder(folder, notes, cfg)),
                             query, indent_of(folder))
             ELSE <<>>)

RECURSIVE tree_items_from(_, _, _, _, _, _)
tree_items_from(sorted_folders, folders, query, expanded, notes, cfg) ==
    IF sorted_folders = <<>> THEN <<>>
    ELSE folder_items(Head(sorted_folders), folders, query, expanded, notes, cfg)
         \o tree_items_from(Tail(sorted_folders), folders, query, expanded, notes, cfg)

\* NoteCLI._build_tree_items(folders, query), reading self.state["expanded_folders"],
\* self.all_notes and self.config
build_tree_items(folders, query, expanded, notes, cfg) ==
    tree_items_from(SortedStrings(Range(folders)), folders, query, expanded, notes, cfg)

-----------------------------------------------------------------------------
(* FileOps *)

\* What becomes of the editor open_note launches: it runs and exits with 0,
\* its name is not in the allowed list, its program is not found, or it
\* exits with another status.
EditorOutcomes == {"opened", "not_allowed", "not_found", "exit_nonzero"}

\* open_note with no handler for the exceptions of subprocess.run.
open_note_uncaught(editor) == editor \in {"opened", "not_allowed"}

\* open_note(note_path) returns: a refused editor is reported before the
\* launch, FileNotFoundError and CalledProcessError are caught and reported.
open_note(editor) == editor \in {"opened", "not_allowed", "not_found", "exit_nonzero"}

\* lines 280-297 / 346-363: the absolute folder a relative folder path names
RECURSIVE find_folder(_, _, _)
find_folder(folder_path, folders, D) ==
    IF folders = <<>> THEN [ok |-> FALSE, path |-> None]
    ELSE IF ~is_safe_path(Head(folders), folder_path) THEN [ok |-> FALSE, path |-> None]
    ELSE IF JoinPath(Head(folders), folder_path) \in D
         THEN [ok |-> TRUE, path |-> JoinPath(Head(folders), folder_path)]
    ELSE find_folder(folder_path, Tail(folders), D)

\* lines 312-314: the default extension
with_default_extension(filename) ==
    IF \E i \in DOMAIN NOTE_EXTENSIONS : EndsWith(filename, NOTE_EXTENSIONS[i])
    THEN filename
    ELSE filename \o <<".", "m", "d">>

\* create_new_note without the test of lines 319-322: touch() on a path
\* that exists succeeds.
create_new_note_overwriting(folder_path, cfg, typed, D, F) ==
    LET folder == find_folder(folder_path, cfg, D)
        filename == Strip(typed)
        new_file_path == Append(folder.path, with_default_extension(filename))
    IN  IF ~folder.ok \/ filename = <<>> \/ ~validate_filename(filename)
           \/ new_file_path \in D
        THEN [ret |-> None, files |-> F]
        ELSE [ret |-> new_file_path, files |-> F \cup {new_file_path}]

\* create_new_note(folder_path, config) with the line typed at its prompt:
\* the path returned (None on failure) and the files on disk afterwards
create_new_note(folder_path, cfg, typed, D, F) ==
    LET folder == find_folder(folder_path, cfg, D)
        filename == Strip(typed)
        new_file_path == Append(folder.path, with_default_extension(filename))
    IN  IF ~folder.ok \/ filename = <<>> \/ ~validate_filename(filename)
           \/ new_file_path \in (F \cup D)
        THEN [ret |-> None, files |-> F]
        ELSE [ret |-> new_file_path, files |-> F \cup {new_file_path}]

\* create_new_folder(parent_folder_path, config) with the line typed at its
\* prompt: the path returned (None on failure) and the directories afterwards
create_new_folder(parent_folder_path, cfg, typed, D, F) ==
    LET parent == find_folder(parent_folder_path, cfg, D)
        folder_name == Strip(typed)
        new_folder_path == Append(parent.path, folder_name)
    IN  IF ~parent.ok \/ folder_name = <<>> \/ ~validate_filename(folder_name)
           \/ new_folder_path \in (F \cup D)
        THEN [ret |-> None, dirs |-> D]
        ELSE [ret |-> new_folder_path, dirs |-> D \cup {new_folder_path}]

\* The security check comparing the top directory only.
file_is_safe_top_only(note_path, cfg) ==
    \E i \in DOMAIN cfg : cfg[i] # <<>> /\ note_path # <<>> /\ note_path[1] = cfg[i][1]

\* lines 407-420: the file lies under a configured folder
file_is_safe(note_path, cfg) == \E i \in DOMAIN cfg : IsPrefix(cfg[i], Parent(note_path))

\* The confirmation compared without regard to case.
confirmed_ignoring_case(typed) == Lower(Strip(typed)) = <<"d", "e", "l", "e", "t", "e">>

\* lines 427-431: the typed confirmation is accepted
confirmed(typed) == Strip(typed) = <<"D", "E", "L", "E", "T", "E">>

\* delete_file(note_path, config) with the line typed at its prompt: the
\* value returned, the files on disk afterwards, and whether the prompt was
\* reached (unlink raises on a file that is gone, which returns False)
delete_file(note_path, cfg, typed, F) ==
    IF ~file_is_safe(note_path, cfg)
    THEN [ret |-> FALSE, files |-> F, asked |-> FALSE]
    ELSE IF confirmed(typed) /\ note_path \in F
    THEN [ret |-> TRUE, files |-> F \ {note_path}, asked |-> TRUE]
    ELSE [ret |-> FALSE, files |-> F, asked |-> TRUE]

\* One choice of manage_folders_menu: 'a' with the path typed, 'r' with the
\* number typed (0 stands for a line that is no number), anything else.
menu_choice(cfg, cmd, D) ==
    IF cmd.choice = "a"
    THEN IF cmd.path # None /\ validate_folder_access(cmd.path, D)
            /\ cmd.path \notin Range(cfg)
         THEN Append(cfg, cmd.path) ELSE cfg
    ELSE IF cmd.choice = "r"
    THEN IF cfg # <<>> /\ 1 <= cmd.num /\ cmd.num <= Len(cfg)
         THEN SubSeq(cfg, 1, cmd.num - 1) \o SubSeq(cfg, cmd.num + 1, Len(cfg))
         ELSE cfg
    ELSE cfg

\* manage_folders_menu(config) with the choices made before 'b'
RECURSIVE manage_folders_menu(_, _, _)
manage_folders_menu(cfg, cmds, D) ==
    IF cmds = <<>> THEN cfg
    ELSE manage_folders_menu(menu_choice(cfg, Head(cmds), D), Tail(cmds), D)

-----------------------------------------------------------------------------
(* The disk at start-up and the inputs *)

\* The number of times the tree view hands over to an external action.
MaxOps == 1
\* The number of choices made in one visit of the folder menu before 'b'.
MaxMenu == 1

cH == <<"h">>
cA == <<"a">>
cB == <<"B">>
cC == <<"c">>
cTmp == <<"t", "m", "p">>
Root1 == <<cH>>
Root2 == <<cH, cA>>

\* The disk the session starts on: /h holds n.md and the folder a, /h/a
\* holds ab.txt.
InitDirs == {<<>>, <<cTmp>>, Root1, Root2}
InitFiles == {<<cH, <<"n", ".", "m", "d">> >>, <<cH, cA, <<"a", "b", ".", "t", "x", "t">> >>}

\* The disks and configurations the tree view is started on: the chain of
\* directories /h, /h/a, /h/a/B, /h/a/B/c cut at any depth, any of three
\* note files in the directories there are, and /h configured alone or,
\* on the disks of depth MaxNestedDepth at most, /h and /h/a configured
\* together in either order.
DirChoices ==
    { {<<>>, <<cTmp>>, Root1},
      {<<>>, <<cTmp>>, Root1, Root2},
      {<<>>, <<cTmp>>, Root1, Root2, <<cH, cA, cB>>},
      {<<>>, <<cTmp>>, Root1, Root2, <<cH, cA, cB>>, <<cH, cA, cB, cC>>} }
FileChoices ==
    SUBSET { <<cH, <<"n", ".", "m", "d">> >>,
             <<cH, cA, <<"a", "b", ".", "t", "x", "t">> >>,
             <<cH, cA, cB, cC, <<"x", ".", "M", "D">> >> }
ConfigChoices == { <<Root1>>, <<Root1, Root2>>, <<Root2, Root1>> }
MaxNestedDepth == 3

\* The texts the search buffer takes.
Queries == {<<>>, <<"a">>, <<"B">>}

\* The lines typed at the prompt of create_new_note.
NoteNameInputs ==
    { <<"p", "l", "a", "n">>,
      <<"p", "l", "a", "n", ".", "t", "x", "t">>,
      <<"p", ".", "M", "D">>,
      <<".", "m", "d">>,
      <<" ", "n", " ">>,
      <<>>,
      <<".", ".", "/", "e", "v", "i", "l", ".", "s", "h">>,
      <<"a", "/", "b">>,
      <<"a", "\\", "b">>,
      <<"a", "NUL">>,
      <<"x", ".", "S", "H">> }

\* The lines typed at the prompt of create_new_folder.
FolderNameInputs ==
    { <<"B">>, <<" ", "a">>, <<>>, <<".", ".">>, <<"a", "/", "b">>, <<"a", "\\", "b">>,
      <<"a", "NUL">>, <<"x", ".", "s", "h">> }

\* The lines typed at the prompt of delete_file.
ConfirmInputs ==
    { <<"D", "E", "L", "E", "T", "E">>,
      <<" ", "D", "E", "L", "E", "T", "E", "\t">>,
      <<"d", "e", "l", "e", "t", "e">>,
      <<"D", "E", "L", "E", "T", "E", "!">>,
      <<>> }

\* The choices made in the folder menu.
MenuChoices ==
    { [choice |-> "a", path |-> Root2, num |-> 0],
      [choice |-> "a", path |-> Root1, num |-> 0],
      [choice |-> "a", path |-> <<<<"t", "m", "p">>>>, num |-> 0],
      [choice |-> "a", path |-> None, num |-> 0],
      [choice |-> "r", path |-> None, num |-> 1],
      [choice |-> "r", path |-> None, num |-> 2],
      [choice |-> "r", path |-> None, num |-> 0],
      [choice |-> "x", path |-> None, num |-> 0] }

RECURSIVE SeqsUpTo(_, _)
SeqsUpTo(S, n) ==
    IF n = 0 THEN {<<>>}
    ELSE SeqsUpTo(S, n - 1) \cup {Append(q, x) : q \in SeqsUpTo(S, n - 1), x \in S}

-----------------------------------------------------------------------------
(* The session state *)

\* The dictionary __init__ and _reset_state build, after _initialize_state.
initial_state(expanded, notes, cfg, D, F) ==
    LET folders == get_folders(notes, cfg, D, F)
    IN  [ selected_index   |-> 0,
          filtered_notes   |-> folders,
          note_to_open     |-> None,
          manage_folders   |-> FALSE,
          create_file_in   |-> None,
          create_folder_in |-> None,
          delete_file      |-> None,
          show_help        |-> FALSE,
          expanded_folders |-> expanded,
          tree_items       |-> build_tree_items(folders, <<>>, expanded, notes, cfg) ]

Did(op, rebuilt) ==
    [op |-> op, arg |-> None, ok |-> TRUE, path |-> None, rebuilt |-> rebuilt, asked |-> FALSE,
     editor |-> "none"]

\* NoteCLI.__init__ on the disk (D, F) with the configuration cfg loaded,
\* n exits of the tree view being counted already
Start(D, F, cfg, n) ==
    /\ dirs = D
    /\ files = F
    /\ config = cfg
    /\ all_notes = find_notes(cfg, D, F)
    /\ state = initial_state({}, find_notes(cfg, D, F), cfg, D, F)
    /\ search_text = <<>>
    /\ pc = "tui"
    /\ nops = n
    /\ last = Did("init", TRUE)

Init == Start(InitDirs, InitFiles, <<Root1>>, 0)

\* The tree view alone, on any of the disks and configurations.
InitTree ==
    \E D \in DirChoices, F \in FileChoices, cfg \in ConfigChoices :
        /\ \A f \in F : Parent(f) \in D
        /\ Len(cfg) = 1 \/ \A d \in D : Len(d) <= MaxNestedDepth
        /\ Start(D, F, cfg, MaxOps)

\* The row self.state["tree_items"][self.state["selected_index"]]
HasSelected == state.selected_index < Len(state.tree_items)
Selected == state.tree_items[state.selected_index + 1]

\* The key handler raises IndexError before it changes anything: the
\* toolkit either reports the exception and keeps the tree view running, or
\* app.run() and run() end with it.
Raise(op) ==
    /\ pc' \in {"tui", "crashed"}
    /\ last' = Did(op, FALSE)
    /\ UNCHANGED <<dirs, files, config, all_notes, state, search_text, nops>>

\* The key handler returns without a change.
NoChange == UNCHANGED vars

\* event.app.exit() with a pending action stored in the state
ExitWith(op, field, value) ==
    /\ nops < MaxOps
    /\ state' = [state EXCEPT ![field] = value]
    /\ pc' = "post"
    /\ nops' = nops + 1
    /\ last' = Did(op, FALSE)
    /\ UNCHANGED <<dirs, files, config, all_notes, search_text>>

-----------------------------------------------------------------------------
(* SelectionController: the key bindings *)

\* move_down stopping at the last row.
move_down_no_wrap(index, n) == IF index + 1 < n THEN index + 1 ELSE index

move_down_index(index, n) == (index + 1) % n
move_up_index(index, n) == (index - 1 + n) % n

move_down ==
    /\ pc = "tui"
    /\ IF state.tree_items # <<>>
       THEN state' = [state EXCEPT !.selected_index =
                         move_down_index(state.selected_index, Len(state.tree_items))]
       ELSE state' = state
    /\ last' = Did("move_down", FALSE)
    /\ UNCHANGED <<dirs, files, config, all_notes, search_text, pc, nops>>

move_up ==
    /\ pc = "tui"
    /\ IF state.tree_items # <<>>
       THEN state' = [state EXCEPT !.selected_index =
                         move_up_index(state.selected_index, Len(state.tree_items))]
       ELSE state' = state
    /\ last' = Did("move_up", FALSE)
    /\ UNCHANGED <<dirs, files, config, all_notes, search_text, pc, nops>>

\* The state after a key binding changed the expanded set: the rows are
\* rebuilt from the folder list with no query, the index is kept.
rebuilt_with(expanded) ==
    [state EXCEPT !.expanded_folders = expanded,
                  !.tree_items = build_tree_items(state.filtered_notes, <<>>, expanded,
                                                  all_notes, config)]

Rebuild(op, expanded) ==
    /\ state' = rebuilt_with(expanded)
    /\ last' = Did(op, TRUE)
    /\ UNCHANGED <<dirs, files, config, all_notes, search_text, pc, nops>>

expand_folder ==
    /\ pc = "tui"
    /\ IF state.tree_items = <<>> THEN NoChange
       ELSE IF ~HasSelected THEN Raise("expand_folder")
       ELSE IF Selected.type = "folder" /\ Selected.item \notin state.expanded_folders
            THEN Rebuild("expand_folder", state.expanded_folders \cup {Selected.item})
       ELSE NoChange

collapse_folder ==
    /\ pc = "tui"
    /\ IF state.tree_items = <<>> THEN NoChange
       ELSE IF ~HasSelected THEN Raise("collapse_folder")
       ELSE IF Selected.type = "folder" /\ Selected.item \in state.expanded_folders
            THEN Rebuild("collapse_folder", state.expanded_folders \ {Selected.item})
       ELSE NoChange

toggle_or_open ==
    /\ pc = "tui"
    /\ IF state.tree_items = <<>> THEN NoChange
       ELSE IF ~HasSelected THEN Raise("toggle_or_open")
       ELSE IF Selected.type = "note"
            THEN ExitWith("toggle_or_open", "note_to_open", Selected.item)
       ELSE IF Selected.item \in state.expanded_folders
            THEN Rebuild("toggle_or_open", state.expanded_folders \ {Selected.item})
       ELSE Rebuild("toggle_or_open", state.expanded_folders \cup {Selected.item})

\* A key binding that stores the selected row of one type and exits.
ExitOnSelected(op, type, field) ==
    IF state.tree_items = <<>> THEN NoChange
    ELSE IF ~HasSelected THEN Raise(op)
    ELSE IF Selected.type = type THEN ExitWith(op, field, Selected.item)
    ELSE NoChange

open_note_key == pc = "tui" /\ ExitOnSelected("open_note", "note", "note_to_open")
create_note_key == pc = "tui" /\ ExitOnSelected("create_note", "folder", "create_file_in")
create_folder_key == pc = "tui" /\ ExitOnSelected("create_folder", "folder", "create_folder_in")
delete_file_key == pc = "tui" /\ ExitOnSelected("delete_file", "note", "delete_file")

manage_folders_key == pc = "tui" /\ ExitWith("manage_folders", "manage_folders", TRUE)
show_help_key == pc = "tui" /\ ExitWith("show_help", "show_help", TRUE)

quit_app ==
    /\ pc = "tui"
    /\ nops < MaxOps
    /\ pc' = "post"
    /\ nops' = nops + 1
    /\ last' = Did("quit_app", FALSE)
    /\ UNCHANGED <<dirs, files, config, all_notes, state, search_text>>

\* _update_filtered_notes without line 840: the index is kept.
filtered_state_keep_index(text) ==
    LET query == Lower(text)
        folders == get_folders(all_notes, config, dirs, files)
    IN  [state EXCEPT
            !.filtered_notes = folders,
            !.tree_items = build_tree_items(folders, query, state.expanded_folders,
                                            all_notes, config)]

\* The state NoteCLI._update_filtered_notes(buff) leaves for the buffer text.
filtered_state(text) ==
    LET query == Lower(text)
        folders == get_folders(all_notes, config, dirs, files)
    IN  [state EXCEPT
            !.filtered_notes = folders,
            !.tree_items = build_tree_items(folders, query, state.expanded_folders,
                                            all_notes, config),
            !.selected_index = 0]

\* NoteCLI._update_filtered_notes(buff), called when the buffer text changes
update_filtered_notes ==
    /\ pc = "tui"
    /\ \E text \in Queries \ {search_text} :
         /\ search_text' = text
         /\ state' = filtered_state(text)
    /\ last' = Did("update_filtered_notes", TRUE)
    /\ UNCHANGED <<dirs, files, config, all_notes, pc, nops>>

-----------------------------------------------------------------------------
(* AppShell: the post-TUI branches of NoteCLI.run *)

\* A reset that starts from an empty expanded set.
reset_state_collapsed(notes, cfg, D, F) ==
    /\ state' = initial_state({}, notes, cfg, D, F)
    /\ search_text' = <<>>
    /\ pc' = "tui"

\* NoteCLI._reset_state(), then the next Application with its empty buffer
reset_state(notes, cfg, D, F) ==
    /\ state' = initial_state(state.expanded_folders, notes, cfg, D, F)
    /\ search_text' = <<>>
    /\ pc' = "tui"

Pending ==
    IF state.note_to_open # None THEN "note_to_open"
    ELSE IF state.create_file_in # None THEN "create_file_in"
    ELSE IF state.create_folder_in # None THEN "create_folder_in"
    ELSE IF state.delete_file # None THEN "delete_file"
    ELSE IF state.show_help THEN "show_help"
    ELSE IF state.manage_folders THEN "manage_folders"
    ELSE "none"

run_open_note ==
    /\ pc = "post" /\ Pending = "note_to_open"
    /\ \E editor \in EditorOutcomes :
         /\ IF open_note(editor)
            THEN reset_state(all_notes, config, dirs, files)
            ELSE pc' = "crashed" /\ UNCHANGED <<state, search_text>>
         /\ last' = [Did("run_open_note", TRUE) EXCEPT !.path = state.note_to_open,
                                                       !.editor = editor]
    /\ UNCHANGED <<dirs, files, config, all_notes, nops>>

run_create_note ==
    /\ pc = "post" /\ Pending = "create_file_in"
    /\ \E typed \in NoteNameInputs, launch \in EditorOutcomes :
         LET r == create_new_note(state.create_file_in, config, typed, dirs, files)
             notes == IF r.ret # None THEN find_notes(config, dirs, r.files) ELSE all_notes
             editor == IF r.ret # None THEN launch ELSE "none"
         IN  /\ files' = r.files
             /\ all_notes' = notes
             /\ IF r.ret # None => open_note(editor)
                THEN reset_state(notes, config, dirs, r.files)
                ELSE pc' = "crashed" /\ UNCHANGED <<state, search_text>>
             /\ last' = [op |-> "run_create_note", arg |-> typed, ok |-> r.ret # None,
                         path |-> r.ret, rebuilt |-> TRUE, asked |-> FALSE,
                         editor |-> editor]
    /\ UNCHANGED <<dirs, config, nops>>

run_create_folder ==
    /\ pc = "post" /\ Pending = "create_folder_in"
    /\ \E typed \in FolderNameInputs :
         LET r == create_new_folder(state.create_folder_in, config, typed, dirs, files)
         IN  /\ dirs' = r.dirs
             /\ reset_state(all_notes, config, r.dirs, files)
             /\ last' = [op |-> "run_create_folder", arg |-> typed, ok |-> r.ret # None,
                         path |-> r.ret, rebuilt |-> TRUE, asked |-> FALSE,
                         editor |-> "none"]
    /\ UNCHANGED <<files, config, all_notes, nops>>

run_delete_file ==
    /\ pc = "post" /\ Pending = "delete_file"
    /\ \E typed \in ConfirmInputs :
         LET r == delete_file(state.delete_file, config, typed, files)
             notes == IF r.ret THEN find_notes(config, dirs, r.files) ELSE all_notes
         IN  /\ files' = r.files
             /\ all_notes' = notes
             /\ reset_state(notes, config, dirs, r.files)
             /\ last' = [op |-> "run_delete_file", arg |-> typed, ok |-> r.ret,
                         path |-> state.delete_file, rebuilt |-> TRUE,
                         asked |-> r.asked, editor |-> "none"]
    /\ UNCHANGED <<dirs, config, nops>>

run_show_help ==
    /\ pc = "post" /\ Pending = "show_help"
    /\ reset_state(all_notes, config, dirs, files)
    /\ last' = Did("run_show_help", TRUE)
    /\ UNCHANGED <<dirs, files, config, all_notes, nops>>

run_manage_folders ==
    /\ pc = "post" /\ Pending = "manage_folders"
    /\ \E cmds \in SeqsUpTo(MenuChoices, MaxMenu) :
         LET cfg == manage_folders_menu(config, cmds, dirs)
         IN  /\ config' = cfg
             /\ reset_state(all_notes, cfg, dirs, files)
    /\ last' = Did("run_manage_folders", TRUE)
    /\ UNCHANGED <<dirs, files, all_notes, nops>>

\* No action is pending: the loop breaks and run() returns.
run_break ==
    /\ pc = "post" /\ Pending = "none"
    /\ pc' = "done"
    /\ last' = Did("run_break", FALSE)
    /\ UNCHANGED <<dirs, files, config, all_notes, state, search_text, nops>>

-----------------------------------------------------------------------------
(* delete_file called on its own *)

\* The note paths delete_file is called with, and the files there may be.
DeletePaths ==
    { <<cH, <<"n", ".", "m", "d">> >>,
      <<cH, cA, <<"a", "b", ".", "t", "x", "t">> >>,
      <<cTmp, <<"t", ".", "m", "d">> >> }

\* The configurations delete_file is called with.
DeleteConfigs == { <<>>, <<Root1>>, <<Root2>>, <<Root2, <<cTmp>> >> }

\* A NoteCLI on any of the disks and configurations, about to call delete_file.
InitDelete ==
    \E F \in SUBSET DeletePaths, cfg \in DeleteConfigs :
        /\ dirs = InitDirs
        /\ files = F
        /\ config = cfg
        /\ all_notes = find_notes(cfg, InitDirs, F)
        /\ state = initial_state({}, find_notes(cfg, InitDirs, F), cfg, InitDirs, F)
        /\ search_text = <<>>
        /\ pc = "call"
        /\ nops = 0
        /\ last = Did("init", TRUE)

\* delete_file(note_path, config) for any path and any line typed
call_delete_file ==
    /\ pc = "call"
    /\ \E note_path \in DeletePaths, typed \in ConfirmInputs :
         LET r == delete_file(note_path, config, typed, files)
         IN  /\ files' = r.files
             /\ last' = [op |-> "call_delete_file", arg |-> typed, ok |-> r.ret,
                         path |-> note_path, rebuilt |-> FALSE, asked |-> r.asked, editor |-> "none"]
    /\ UNCHANGED <<dirs, config, all_notes, state, search_text, pc, nops>>

-----------------------------------------------------------------------------
(* The properties *)

Rows == state.tree_items
Index == state.selected_index
Expanded == state.expanded_folders
Folders == Range(state.filtered_notes)

\* The proper ancestor prefixes of a folder path: what stands before a '/'.
Ancestors(p) == {SubSeq(p, 1, j - 1) : j \in {k \in DOMAIN p : p[k] = "/"}}

\* The folder paths that have a folder row in a row sequence.
FolderRowsOf(rows) == {rows[i].item : i \in {k \in DOMAIN rows : rows[k].type = "folder"}}

\* q is a substring of s when case is ignored.
ContainsIgnoringCase(q, s) ==
    \E i \in 0..(Len(s) - Len(q)) :
        \A k \in 1..Len(q) : LowerTable[s[i + k]] = LowerTable[q[k]]

\* The operations that end with a session reset.
ResetOps == {"run_open_note", "run_create_note", "run_create_folder", "run_delete_file",
             "run_show_help", "run_manage_folders"}
\* The key bindings that change the expanded set.
ExpandOps == {"expand_folder", "collapse_folder", "toggle_or_open"}

FolderA == <<"a">>
FolderAB == <<"a", "/", "B">>
FolderABC == <<"a", "/", "B", "/", "c">>

\* C1: in every reachable state, if the row sequence is non-empty then
\* 0 <= selected_index < len(tree_items).
C1_IndexInRange == Rows # <<>> => (0 <= Index /\ Index < Len(Rows))

\* C2 as claimed: after any operation that rebuilds the row sequence (a query
\* change, expand, collapse, toggle of a folder, a session reset) the
\* selection index is 0.
C2_IndexZeroAfterRebuild == last.rebuilt => Index = 0

\* C2 as amended: after a query text change or a session reset the selection
\* index is 0; expand, collapse and toggle of a folder rebuild the rows and
\* leave the selection index as it was.
C2_IndexZeroAfterQueryOrReset ==
    [][ /\ last'.op \in ResetOps \cup {"update_filtered_notes"} => Index' = 0
        /\ last'.op \in ExpandOps /\ last'.rebuilt => Index' = Index ]_vars

\* C2's case: a query change that found the selection below the first row
\* of a longer list has just put it back on row 0.
C2_Witness ==
    /\ last.op = "update_filtered_notes"
    /\ search_text # <<>>
    /\ Len(Rows) > 1
    /\ Index = 0

\* C3: with an empty query, a folder of the synthesized folder set has a
\* folder row iff every proper ancestor prefix of its path is in the
\* expanded set: in the rows on display whenever the search text is empty,
\* and in the rows built for every expanded set over the folder set.
C3_VisibleIffAncestorsExpanded ==
    /\ search_text = <<>> =>
          \A p \in Folders : p \in FolderRowsOf(Rows) <=> Ancestors(p) \subseteq Expanded
    /\ last.op = "init" =>
          \A E \in SUBSET Folders :
              LET rows == build_tree_items(state.filtered_notes, <<>>, E, all_notes, config)
              IN  \A p \in Folders : p \in FolderRowsOf(rows) <=> Ancestors(p) \subseteq E

\* C3's case: a/B is expanded, its parent a is collapsed, and neither a/B
\* nor a/B/c has a row.
C3_Witness ==
    /\ search_text = <<>>
    /\ {FolderA, FolderAB, FolderABC} \subseteq Folders
    /\ FolderAB \in Expanded
    /\ FolderA \notin Expanded
    /\ FolderA \in FolderRowsOf(Rows)
    /\ FolderAB \notin FolderRowsOf(Rows)
    /\ FolderABC \notin FolderRowsOf(Rows)

\* C4: with a non-empty query, the folders that have a folder row are
\* exactly the folders whose path contains the query when case is ignored,
\* whatever the expanded set holds: in the rows on display after a query
\* change, and in the rows built for every query text and expanded set.
C4_QueryBypassesExpansion ==
    /\ last.op = "update_filtered_notes" /\ search_text # <<>> =>
          FolderRowsOf(Rows) = {p \in Folders : ContainsIgnoringCase(search_text, p)}
    /\ last.op = "init" =>
          \A text \in Queries \ {<<>>} : \A E \in SUBSET Folders :
              FolderRowsOf(build_tree_items(state.filtered_notes, Lower(text), E,
                                            all_notes, config))
                  = {p \in Folders : ContainsIgnoringCase(text, p)}

\* C4's case: the text 'B' has been typed, a/B has a row although its
\* parent a is collapsed, and a has none.
C4_Witness ==
    /\ last.op = "update_filtered_notes"
    /\ search_text = <<"B">>
    /\ FolderA \in Folders
    /\ FolderA \notin Expanded
    /\ FolderAB \in FolderRowsOf(Rows)
    /\ FolderA \notin FolderRowsOf(Rows)

\* C5: the folder set the synthesizer returns is ancestor-closed: every
\* proper prefix of a member, split on '/', is a member.
C5_AncestorClosed == \A p \in Folders : Ancestors(p) \subseteq Folders

\* C5's case: /h/a is configured before /h and holds a note, so that the
\* note counts as '.' of /h/a, and the empty folder a/B of /h brings a in.
C5_Witness ==
    /\ config = <<Root2, Root1>>
    /\ <<cH, cA, <<"a", "b", ".", "t", "x", "t">> >> \in files
    /\ FolderAB \in Folders
    /\ FolderA \in Folders

\* C6: every folder row has indent 2 times the number of '/' in its path,
\* and every note row the indent of the folder row above it plus 2.
C6_Indent ==
    \A i \in DOMAIN Rows :
        IF Rows[i].type = "folder"
        THEN Rows[i].indent = 2 * Cardinality({k \in DOMAIN Rows[i].item : Rows[i].item[k] = "/"})
        ELSE \E j \in 1..(i - 1) :
                /\ Rows[j].type = "folder"
                /\ \A k \in (j + 1)..(i - 1) : Rows[k].type = "note"
                /\ Rows[i].indent = Rows[j].indent + 2

\* C6's case: the folder a/B/c has its row at indent 4 and its note at 6.
C6_Witness ==
    \E i \in DOMAIN Rows :
        /\ i < Len(Rows)
        /\ Rows[i] = [type |-> "folder", item |-> FolderABC, indent |-> 4]
        /\ Rows[i + 1].type = "note"
        /\ Rows[i + 1].indent = 6

\* C7: with n > 0 rows move-down sets the index to (index + 1) mod n and
\* move-up to (index - 1) mod n; with no rows both change nothing; the
\* expanded set and the rows are left as they are.
C7_MoveWraps ==
    [][ /\ last'.op = "move_down" =>
              /\ Rows # <<>> => Index' = (Index + 1) % Len(Rows)
              /\ Rows = <<>> => Index' = Index
              /\ Rows' = Rows /\ Expanded' = Expanded
        /\ last'.op = "move_up" =>
              /\ Rows # <<>> => Index' = (Index - 1) % Len(Rows)
              /\ Rows = <<>> => Index' = Index
              /\ Rows' = Rows /\ Expanded' = Expanded ]_vars

\* C7's case: move-down has just wrapped from the last of three rows.
C7_Witness == last.op = "move_down" /\ Len(Rows) = 3 /\ Index = 0

\* A name with a path separator, a traversal sequence, a null byte or an
\* executable-style extension at its end.
Unsafe(name) ==
    \/ Contains(<<"/">>, name)
    \/ Contains(<<"\\">>, name)
    \/ Contains(<<".", ".">>, name)
    \/ Contains(<<"NUL">>, name)
    \/ \E i \in DOMAIN dangerous_extensions : EndsWith(Lower(name), dangerous_extensions[i])

\* The file name the claim gives a note: the name as it is when it ends in
\* a recognized extension, case ignored, and the name with '.md' otherwise.
ClaimedNoteName(filename) ==
    IF \E i \in DOMAIN NOTE_EXTENSIONS : EndsWith(Lower(filename), NOTE_EXTENSIONS[i])
    THEN filename
    ELSE filename \o <<".", "m", "d">>

\* C8: a note created for a valid filename is a file named by the filename
\* unchanged when it ends in a recognized note extension, matched without
\* regard to case, and by the filename with '.md' appended otherwise.
C8_DefaultExtension ==
    last.op = "run_create_note" /\ last.ok =>
        /\ last.path \in files
        /\ Name(last.path) = ClaimedNoteName(Strip(last.arg))

\* C9: create-note and create-folder given a name with a path separator,
\* '..', a null byte or an executable-style extension at its end fail and
\* leave the files and directories on disk as they were.
C9_UnsafeNameRejected ==
    [][ last'.op \in {"run_create_note", "run_create_folder"} /\ Unsafe(last'.arg) =>
            /\ ~last'.ok
            /\ last'.path = None
            /\ files' = files
            /\ dirs' = dirs ]_vars

\* C9's case: '../evil.sh' was typed for a new note in a folder that exists.
C9_Witness ==
    /\ last.op = "run_create_note"
    /\ last.arg = <<".", ".", "/", "e", "v", "i", "l", ".", "s", "h">>
    /\ ~last.ok
    /\ pc = "tui"

Phrase == <<"D", "E", "L", "E", "T", "E">>

\* C10 as claimed: delete-note given any confirmation input other than
\* exactly 'DELETE' returns false and leaves the note file on disk.
C10_ExactConfirmation ==
    last.op = "run_delete_file" /\ last.arg # Phrase =>
        ~last.ok /\ last.path \in files

\* C10 as amended: delete-note given a confirmation input that is not
\* 'DELETE' once its leading and trailing whitespace is stripped returns
\* false and leaves the note file on disk.
C10_StrippedConfirmation ==
    last.op = "run_delete_file" /\ Strip(last.arg) # Phrase =>
        ~last.ok /\ last.path \in files

\* C10's case: 'delete' was typed and the note is still there.
C10_Witness ==
    /\ last.op = "run_delete_file"
    /\ last.arg = <<"d", "e", "l", "e", "t", "e">>
    /\ ~last.ok
    /\ last.path \in files

\* No configured root is a proper prefix of the path p.
UnderNoRoot(p) ==
    \A i \in DOMAIN config :
        Len(config[i]) >= Len(p) \/ SubSeq(p, 1, Len(config[i])) # config[i]

\* C11: delete-note on a note whose path is under no configured root
\* returns false, does not ask for the confirmation and removes no file,
\* whatever line would have been typed.
C11_OutsideRootsNotDeleted ==
    [][ last'.op \in {"call_delete_file", "run_delete_file"} /\ UnderNoRoot(last'.path) =>
            /\ ~last'.ok
            /\ ~last'.asked
            /\ files' = files ]_vars

\* C11's case: /tmp/t.md is on disk, only /h is configured, 'DELETE' would
\* have been typed, and the file is still there.
C11_Witness ==
    /\ last.op = "call_delete_file"
    /\ config = <<Root1>>
    /\ last.path = <<cTmp, <<"t", ".", "m", "d">> >>
    /\ last.arg = Phrase
    /\ last.path \in files
    /\ ~last.ok /\ ~last.asked

\* No pending-action field of the state is set.
NothingPending(st) ==
    /\ st.note_to_open = None
    /\ st.create_file_in = None
    /\ st.create_folder_in = None
    /\ st.delete_file = None
    /\ ~st.show_help
    /\ ~st.manage_folders

\* C12: a session reset leaves the expanded set as it was, sets the
\* selection index to 0 and clears every pending-action field; the expanded
\* set changes only by expand, collapse or toggle on a folder row, and then
\* by that folder alone.
C12_ResetKeepsExpanded ==
    [][ /\ last'.op \in ResetOps =>
              /\ Expanded' = Expanded
              /\ Index' = 0
              /\ NothingPending(state')
        /\ Expanded' # Expanded =>
              /\ last'.op \in ExpandOps
              /\ Index < Len(Rows)
              /\ Rows[Index + 1].type = "folder"
              /\ (Expanded' \ Expanded) \cup (Expanded \ Expanded') = {Rows[Index + 1].item} ]_vars

\* C12's case: the folder a was expanded, a folder was created from the row
\* of a (the second row), and after the reset a is still expanded with the
\* selection on row 0.
C12_Witness ==
    /\ last.op = "run_create_folder"
    /\ last.ok
    /\ Parent(last.path) = Root2
    /\ FolderA \in Expanded
    /\ Index = 0
    /\ NothingPending(state)
    /\ pc = "tui"

\* C13: when the session is back at the tree after folder management or
\* after creating or deleting a note, the in-memory note collection equals
\* a fresh scan of the roots configured now.
C13_IndexRebuilt ==
    pc = "tui" /\ last.op \in {"run_manage_folders", "run_create_note", "run_delete_file"} =>
        all_notes = find_notes(config, dirs, files)

\* C14: the note collection holds every note file under a configured root
\* once and no path twice, and no note has two rows under one folder row.
C14_OneNotePerFile ==
    /\ Range(all_notes) =
           {f \in files : is_note_name(Name(f)) /\ ~UnderNoRoot(f)}
    /\ \A i, j \in DOMAIN all_notes : i # j => all_notes[i] # all_notes[j]
    /\ \A i, j \in DOMAIN Rows :
           (i < j /\ Rows[i].type = "note" /\ Rows[j] = Rows[i]) =>
               \E k \in (i + 1)..(j - 1) : Rows[k].type = "folder"

\* C15: create-note whose target path, the resolved folder plus the
\* filename with its default extension, exists already, and create-folder
\* whose target directory exists already, fail and leave the files and
\* directories on disk as they were.
C15_ExistingTargetRefused ==
    [][ /\ last'.op = "run_create_note" =>
              LET folder == find_folder(state.create_file_in, config, dirs)
                  target == Append(folder.path, with_default_extension(Strip(last'.arg)))
              IN  (folder.ok /\ target \in (files \cup dirs)) =>
                      (~last'.ok /\ files' = files /\ dirs' = dirs)
        /\ last'.op = "run_create_folder" =>
              LET parent == find_folder(state.create_folder_in, config, dirs)
                  target == Append(parent.path, Strip(last'.arg))
              IN  (parent.ok /\ target \in (files \cup dirs)) =>
                      (~last'.ok /\ files' = files /\ dirs' = dirs) ]_vars

\* C15's case: ' n ' was typed for a new note, a name that is refused only
\* where n.md exists, and it was refused with /h/n.md still on disk.
C15_Witness ==
    /\ last.op = "run_create_note"
    /\ last.arg = <<" ", "n", " ">>
    /\ ~last.ok
    /\ <<cH, <<"n", ".", "m", "d">> >> \in files
    /\ pc = "tui"

\* C16: the handling of a pending external action, whether it succeeds or
\* fails, ends with a session reset and the return to the tree view; and
\* run() ends only after the tree view was left with no pending action.
C16_PendingEndsInReset ==
    [][ /\ (pc = "post" /\ Pending # "none") =>
              /\ pc' = "tui"
              /\ last'.op \in ResetOps
              /\ Index' = 0
              /\ search_text' = <<>>
              /\ NothingPending(state')
        /\ pc' \notin {"tui", "post"} => NothingPending(state)
        /\ pc' = "done" => (pc = "post" /\ last.op = "quit_app") ]_vars

\* C16's case: a note was created and its editor was not found, or a note
\* was opened and the editor exited with an error, and the tree view is back.
C16_Witness ==
    /\ pc = "tui"
    /\ NothingPending(state)
    /\ \/ last.op = "run_create_note" /\ last.ok /\ last.editor = "not_found"
       \/ last.op = "run_open_note" /\ last.editor = "exit_nonzero"

\* The items of the note rows that stand directly after row i.
NoteBlock(rows, i) ==
    LET j == CHOOSE e \in i..Len(rows) :
                 /\ \A k \in (i + 1)..e : rows[k].type = "note"
                 /\ e = Len(rows) \/ rows[e + 1].type = "folder"
    IN  [k \in 1..(j - i) |-> rows[i + k].item]

\* The note x lies in the logical folder f of a configured root.
InLogicalFolder(x, f) ==
    \E i \in DOMAIN config :
        /\ IsPrefix(config[i], Parent(x))
        /\ RelStr(Parent(x), config[i]) = f

\* The rows are the rows C17 describes for the search text and the expanded
\* set E: they start with a folder row, and the notes after each folder row
\* are sorted by name and are, each as often as the note collection holds it,
\* the notes of the folder that pass the text, or none when the folder is
\* not in E and the text is empty.
NotesFollowFolders(rows, text, E) ==
    /\ rows # <<>> => rows[1].type = "folder"
    /\ \A i \in DOMAIN rows :
           rows[i].type = "folder" =>
               LET block == NoteBlock(rows, i)
                   emitted == rows[i].item \in E \/ text # <<>>
               IN  /\ \A k \in 1..(Len(block) - 1) :
                          ~StrLess(Name(block[k + 1]), Name(block[k]))
                   /\ \A x \in Range(all_notes) \cup Range(block) :
                          Cardinality({k \in DOMAIN block : block[k] = x}) =
                              IF /\ emitted
                                 /\ InLogicalFolder(x, rows[i].item)
                                 /\ ContainsIgnoringCase(text, Name(x))
                              THEN Cardinality({k \in DOMAIN all_notes : all_notes[k] = x})
                              ELSE 0

\* C17: the note rows of a folder stand directly after its folder row,
\* sorted by name, iff the folder is expanded or the query is non-empty; a
\* non-empty query keeps the notes whose name contains it, case ignored; no
\* note row stands without its folder row. This holds in the rows on
\* display after a query change or a change of the expanded set, and in the
\* rows built after a reset for every query text and expanded set.
C17_NotesUnderFolderRows ==
    /\ last.op = "update_filtered_notes" => NotesFollowFolders(Rows, search_text, Expanded)
    /\ last.op \in ExpandOps /\ last.rebuilt => NotesFollowFolders(Rows, <<>>, Expanded)
    /\ last.op \in ResetOps \cup {"init"} /\ pc = "tui" =>
          \A text \in Queries : \A E \in SUBSET Folders :
              NotesFollowFolders(build_tree_items(state.filtered_notes, Lower(text), E,
                                                  all_notes, config), text, E)

\* C17's case: the note p.MD.md was created next to ab.txt in the folder a,
\* the text 'a' was typed with a collapsed, and the row of a is followed by
\* ab.txt alone.
C17_Witness ==
    /\ last.op = "update_filtered_notes"
    /\ search_text = <<"a">>
    /\ FolderA \notin Expanded
    /\ <<cH, cA, <<"p", ".", "M", "D", ".", "m", "d">> >> \in Range(all_notes)
    /\ \E i \in DOMAIN Rows :
           /\ Rows[i].type = "folder" /\ Rows[i].item = FolderA
           /\ NoteBlock(Rows, i) = << <<cH, cA, <<"a", "b", ".", "t", "x", "t">> >> >>

\* C18: after a create-note that reports success, the created file is in
\* the rescanned note collection and is among the notes listed for the
\* folder row it was created from when that folder is expanded.
C18_CreatedNoteListed ==
    [][ last'.op = "run_create_note" /\ last'.ok =>
            /\ last'.path \in files'
            /\ last'.path \in Range(all_notes')
            /\ LET rows == build_tree_items(state'.filtered_notes, <<>>,
                                            Expanded' \cup {state.create_file_in},
                                            all_notes', config')
               IN  \E i \in DOMAIN rows :
                       /\ rows[i] = [type |-> "folder", item |-> state.create_file_in,
                                     indent |-> rows[i].indent]
                       /\ last'.path \in Range(NoteBlock(rows, i)) ]_vars

\* C19: in every state of the tree view the rows on display are the rows
\* built from the current folder list, the current expanded set and the
\* current search text.
C19_RowsFollowSearchText ==
    pc = "tui" =>
        Rows = build_tree_items(state.filtered_notes, Lower(search_text), Expanded,
                                all_notes, config)

\* C20: after a delete-note that succeeds, the logical folder that held
\* the deleted note is a member of the folder set of the following rebuild.
C20_FolderKeptAfterDelete ==
    last.op = "run_delete_file" /\ last.ok =>
        \E i \in DOMAIN config :
            /\ IsPrefix(config[i], Parent(last.path))
            /\ RelStr(Parent(last.path), config[i]) \in Folders

Next ==
    \/ move_down
    \/ move_up
    \/ expand_folder
    \/ collapse_folder
    \/ toggle_or_open
    \/ open_note_key
    \/ create_note_key
    \/ create_folder_key
    \/ delete_file_key
    \/ manage_folders_key
    \/ show_help_key
    \/ quit_app
    \/ update_filtered_notes
    \/ run_open_note
    \/ run_create_note
    \/ run_create_folder
    \/ run_delete_file
    \/ run_show_help
    \/ run_manage_folders
    \/ run_break

Spec == Init /\ [][Next]_vars

\* The key bindings that stay in the tree view.
NextTree ==
    \/ move_down
    \/ move_up
    \/ expand_folder
    \/ collapse_folder
    \/ toggle_or_open
    \/ update_filtered_notes

SpecTree == InitTree /\ [][NextTree]_vars

\* delete_file alone, called again and again.
NextDelete == call_delete_file

SpecDelete == InitDelete /\ [][NextDelete]_vars

====
